---- MODULE Spec2Model ----
(***************************************************************************)
(* The workflow engine of the automation framework (src/workflow.py):      *)
(* AutomationWorkflow.run_task and AutomationWorkflow._execute_plan.       *)
(* Every collaborator call (propose_plan, review_plan, execute_step,       *)
(* review_step, final_review, synthesise_outcome) is one action: the call  *)
(* returns a response drawn from a small set, and the action carries the   *)
(* engine's code from that return up to the next call.                     *)
(* AutomationWorkflow.run_all, the planner's conversations (src/agent.py), *)
(* the skill registry (src/skills.py) and ExecutorAgent.execute_step       *)
(* (src/Agents/executor.py) have specifications of their own further down. *)
(***************************************************************************)
EXTENDS Integers, Sequences, FiniteSets, TLC

(* ------------------------------ bounds --------------------------------- *)
\* The configuration of a workflow is any triple of positive bounds up to these.
MaxPlanIterations == 3
MaxStepIterations == 2
MaxReplanAttempts == 1
\* A batch handed to run_all has up to this many tasks.
MaxTasks == 2
\* An executor is built with max_skill_invocations up to this.
MaxSkillInvocations == 2

(* --------------------------- data entities ----------------------------- *)
\* Python's None for an optional text, and for an optional mapping / object.
NoFeedback == "None"
NoPlan == [none |-> TRUE]
NoResult == [none |-> TRUE]
NoError == [none |-> TRUE]
NoStep == [none |-> TRUE]
NoOutput == [none |-> TRUE]
NoReview == [none |-> TRUE]
NoSummary == "None"
\* A step of a planner response that carries no "id" key.
NoId == "absent"

\* Tasks: a name and an objective. Two of the sample share their name.
DemoTask == [name |-> "t1", objective |-> "demo"]
TaskPool == {DemoTask, [name |-> "t1", objective |-> "other"],
             [name |-> "t2", objective |-> "demo"]}

\* The value under a plan's "steps" key: a json array of steps, or some other
\* (truthy) json value such as a text.
StepsArray(items) == [type |-> "array", items |-> items]
StepsText == [type |-> "text", items |-> <<>>]

\* Planner responses: json objects with a "steps" array whose items carry a
\* caller-assigned "id" or none. The sample holds the empty plan, a plan whose only
\* step has no id, a plan mixing both kinds, a plan whose caller-assigned id is the
\* one the engine would synthesise for the next position, and a response whose
\* "steps" is not an array.
PlanOf(ids) ==
    [plan_overview |-> "o",
     steps |-> StepsArray([i \in 1..Len(ids) |-> [id |-> ids[i]]])]
BadPlan == [plan_overview |-> "o", steps |-> StepsText]
Plans ==
    {PlanOf(<<>>), PlanOf(<<NoId>>), PlanOf(<<"a", NoId>>), PlanOf(<<"step-2", NoId>>),
     BadPlan}

\* Plan reviews: 'approved' and 'feedback' (the feedback may be missing).
PlanReviews ==
    {[approved |-> TRUE, feedback |-> NoFeedback]}
        \cup {[approved |-> FALSE, feedback |-> f] : f \in {"fb1", NoFeedback}}

\* Step reviews: 'approved', 'requires_replan' and 'feedback'.
StepReviews ==
    {[approved |-> TRUE, requires_replan |-> FALSE, feedback |-> "fb1"],
     [approved |-> TRUE, requires_replan |-> TRUE, feedback |-> "fb1"],
     [approved |-> FALSE, requires_replan |-> FALSE, feedback |-> "fb1"],
     [approved |-> FALSE, requires_replan |-> FALSE, feedback |-> NoFeedback],
     [approved |-> FALSE, requires_replan |-> TRUE, feedback |-> "fb2"],
     [approved |-> FALSE, requires_replan |-> TRUE, feedback |-> NoFeedback]}

\* Responses that parse but are not of the declared shape: a plan without 'steps',
\* a plan review without 'approved'.
MalformedPlans == {[plan_overview |-> "o"]}
MalformedPlanReviews == {[feedback |-> "fb1"]}

\* Execution outputs, final reviews and coordinator narratives are opaque.
Outputs == {[summary |-> "done"]}
FinalReviews == {[approved |-> TRUE, feedback |-> "ok"]}
Narratives == {"narrative"}

\* The text run_task substitutes for a missing replan feedback (line 177).
DefaultReplanFeedback == "Reviewer requested a re-plan during execution."

VARIABLES
    cfg,               \* max_plan_iterations, max_step_iterations, max_replan_attempts, coordinator
    pc,                \* the collaborator call the engine is about to make, or done / failed
    previous_plan, feedback, plan_attempt, plan, replan_attempts,    \* run_task's locals
    index, step, attempt, attempt_feedback, execution_output,        \* _execute_plan's locals
    step_attempts, all_results, approved_results,
    reviewer_summary,
    result,            \* the TaskRunResult run_task returns
    error,             \* the error run_task raises
    hist,              \* history of the run: the calls made so far (not program state)
    tasks, position, results,   \* run_all: the batch, the place of the current task, the results
    chat_histories,    \* the planner agent's conversations, by conversation id
    reports,           \* the files of reports_dir, by file name
    main,              \* main(): its position, inputs and what it has set up
    skills,            \* SkillRegistry._skills
    registry_call,     \* the latest call of the registry and what it did (not program state)
    executor,          \* ExecutorAgent.execute_step: its locals and where it stands
    executor_log       \* the model calls execute_step has made (not program state)

vars == <<cfg, pc, previous_plan, feedback, plan_attempt, plan, replan_attempts,
          index, step, attempt, attempt_feedback, execution_output,
          step_attempts, all_results, approved_results, reviewer_summary,
          result, error, hist, tasks, position, results, chat_histories,
          reports, main, skills, registry_call, executor, executor_log>>

\* What no line of run_task or _execute_plan writes: the configuration, the batch,
\* the registry and the executor's own state.
static == <<cfg, tasks, position, results, main, skills, registry_call, executor,
            executor_log>>

\* The task handed to run_task: for task in tasks.
TheTask == tasks[position]

runLocals == <<previous_plan, feedback, plan_attempt, plan, replan_attempts>>
execLocals == <<index, step, attempt, attempt_feedback, execution_output,
                step_attempts, all_results, approved_results>>

(* ----------------------------- helpers --------------------------------- *)
\* Python truthiness of an optional text: None and "" are falsy.
Truthy(text) == text # NoFeedback /\ text # ""

\* steps = plan.get("steps") or []: a plan without the key has no steps.
StepsOf(p) == IF "steps" \in DOMAIN p THEN p.steps.items ELSE <<>>

\* A slip: an empty array is refused like a value that is no array.
StepsIsList_NonEmpty(p) == p.steps.type = "array" /\ p.steps.items # <<>>

\* isinstance(steps, list), which [] is
StepsIsList(p) == "steps" \notin DOMAIN p \/ p.steps.type = "array"

\* A slip: the loop stops one item short.
HasStep_SkipsLast(p, i) == i < Len(StepsOf(p))

\* for index, raw_step in enumerate(steps, start=1): is there an item at position i
HasStep(p, i) == i <= Len(StepsOf(p))

\* step = dict(raw_step); step.setdefault("id", f"step-{index}")
WithDefaultId(raw_step, i) ==
    IF raw_step.id = NoId THEN [raw_step EXCEPT !.id = "step-" \o ToString(i)]
    ELSE raw_step

\* A slip: the attempts are numbered from 0.
StepResult_FromZero(s, output, review, a) ==
    [step_id |-> s.id, step |-> s, output |-> output, review |-> review,
     attempt |-> a - 1]

\* StepResult(step_id=step["id"], step=step, output=..., review=..., attempt=attempt)
StepResult(s, output, review, a) ==
    [step_id |-> s.id, step |-> s, output |-> output, review |-> review, attempt |-> a]

\* A slip: the plan stored is the one kept for the planner's next revision.
TaskRunResult_StalePlan(p, step_results, summary, narrative) ==
    [task |-> TheTask, plan |-> previous_plan, step_results |-> step_results,
     reviewer_summary |-> summary, coordinator_summary |-> narrative]

\* A slip: the default ids were set on the plan's own step records, not on copies,
\* so the plan stored carries them.
TaskRunResult_EngineSteps(p, step_results, summary, narrative) ==
    [task |-> TheTask,
     plan |-> [p EXCEPT !.steps.items = [i \in DOMAIN @ |-> WithDefaultId(@[i], i)]],
     step_results |-> step_results,
     reviewer_summary |-> summary, coordinator_summary |-> narrative]

\* TaskRunResult(task, plan, step_results, reviewer_summary, coordinator_summary)
TaskRunResult(p, step_results, summary, narrative) ==
    [task |-> TheTask, plan |-> p, step_results |-> step_results,
     reviewer_summary |-> summary, coordinator_summary |-> narrative]

\* A slip: the loop test is off by one.
PlanLoopContinues_OffByOne(pa) == pa <= cfg.max_plan_iterations

\* while plan_attempt < self.max_plan_iterations
PlanLoopContinues(pa) == pa < cfg.max_plan_iterations

\* A slip: the range is twice as long.
StepLoopContinues_Twice(a) == a < 2 * cfg.max_step_iterations

\* A slip: the range allows one attempt too many.
StepLoopContinues_OffByOne(a) == a <= cfg.max_step_iterations

\* for attempt in range(1, self.max_step_iterations + 1): is there a next attempt
StepLoopContinues(a) == a < cfg.max_step_iterations

\* if replan_attempts > self.max_replan_attempts
ReplanExceeded(ra) == ra > cfg.max_replan_attempts

\* A slip: the test reads the review mapping itself, which is truthy, instead of
\* its verdict.
PlanApproved_AnyReview(review) == TRUE

\* if not plan_review.get("approved"): a review without the key gives None
PlanApproved(review) == "approved" \in DOMAIN review /\ review.approved

\* A slip: a review that asks for a replan is taken for an approval as well.
StepApproved_OrReplan(review) == review.approved \/ review.requires_replan

\* A slip: the replan flag is looked at first.
StepApproved_ReplanFirst(review) == review.approved /\ ~review.requires_replan

\* if step_review.get("approved")
StepApproved(review) == review.approved

\* if step_review.get("requires_replan")
RequiresReplan(review) == review.requires_replan

\* A slip: the feedback of the review is passed on as it is, also when it is missing.
ReplanFeedback_Raw(execution_feedback) == execution_feedback

\* A slip: without a feedback of the review the feedback of the last plan rejection
\* stays in place.
ReplanFeedback_Stale(execution_feedback) ==
    IF Truthy(execution_feedback) THEN execution_feedback ELSE feedback

\* feedback = execution_feedback or "Reviewer requested a re-plan during execution."
ReplanFeedback(execution_feedback) ==
    IF Truthy(execution_feedback) THEN execution_feedback ELSE DefaultReplanFeedback

\* A slip: the approved result is not appended.
ForwardApproved_Forgotten(approved, step_result) == approved

\* A slip: the approved result is forwarded twice.
ForwardApproved_Twice(approved, step_result) ==
    approved \o <<step_result, step_result>>

\* approved_results.append(step_result)
ForwardApproved(approved, step_result) == Append(approved, step_result)

\* A slip: only the last attempt of the step is kept.
ExtendResults_OnlyLast(so_far, attempts) == Append(so_far, attempts[Len(attempts)])

\* all_results.extend(step_attempts)
ExtendResults(so_far, attempts) == so_far \o attempts

\* conversation_id = f"plan::{task.name}"
PlanConversation(task) == "plan::" \o task.name
ConversationIds == {PlanConversation(t) : t \in TaskPool}

\* self.chat_histories = {}: a conversation that is not in the mapping has no message.
\* A message is kept by its role.
NoHistories == [c \in ConversationIds |-> <<>>]

\* Agent.get_chat_history: a new conversation is seeded with the system prompt.
GetChatHistory(histories, c) ==
    IF histories[c] = <<>> THEN [histories EXCEPT ![c] = <<"system">>] ELSE histories

\* The messages Agent.generate_response sends for a user message in conversation c:
\* the whole history, then the user message.
RequestMessages(histories, c) == Append(GetChatHistory(histories, c)[c], "user")

\* Agent.generate_response: the user message and the assistant's response are
\* appended to the conversation.
GenerateResponse(histories, c) ==
    [histories EXCEPT ![c] = Append(RequestMessages(histories, c), "assistant")]

\* The errors run_task raises, by what their message names.
PlanAttemptsError == [kind |-> "plan_attempts", task |-> TheTask.name, step_id |-> NoId]
ReplanError == [kind |-> "replan_attempts", task |-> TheTask.name, step_id |-> NoId]
StepsError == [kind |-> "steps_not_array", task |-> "", step_id |-> NoId]
StepAttemptsError(s) ==
    [kind |-> "step_attempts", task |-> "", step_id |-> s.id,
     attempts |-> cfg.max_step_iterations]

(* ------------------------------ history -------------------------------- *)
HistInit ==
    [n_kickoff |-> 0, n_propose |-> 0, n_review_plan |-> 0, n_final_review |-> 0,
     n_synthesise |-> 0, n_reports |-> 0,
     n_rejected |-> 0,        \* plan reviews that did not approve
     n_replans |-> 0,         \* returns to planning caused by a replan signal
     discarded |-> FALSE,     \* StepResults of this run were dropped with an aborted plan
     last_propose |-> [none |-> TRUE],      \* the arguments of the latest propose_plan
     last_plan_review |-> [none |-> TRUE],  \* the latest response of review_plan
     cause |-> [kind |-> "none"],           \* what last sent the engine back to planning
     execs |-> <<>>,          \* execute_step calls of the current plan attempt
     trips |-> <<>>]          \* execute/review round-trips of the current plan attempt

(* ------------------------------ reports -------------------------------- *)
\* Task names as the texts they are; Characters gives the characters a name is
\* made of, which is what iterating over the text yields.
Names == {t.name : t \in TaskPool} \cup {"T1", " t1", "t 1", "t-1", "t_1", "!", "task"}
Characters(name) ==
    CASE name = "t1" -> <<"t", "1">>
      [] name = "t2" -> <<"t", "2">>
      [] name = "T1" -> <<"T", "1">>
      [] name = " t1" -> <<" ", "t", "1">>
      [] name = "t 1" -> <<"t", " ", "1">>
      [] name = "t-1" -> <<"t", "-", "1">>
      [] name = "t_1" -> <<"t", "_", "1">>
      [] name = "!" -> <<"!">>
      [] name = "task" -> <<"t", "a", "s", "k">>

\* char.isalnum() and char.lower() on the characters of the names
IsAlnum(char) == char \in {"t", "a", "s", "k", "T", "1", "2"}
Lower(char) == IF char = "T" THEN "t" ELSE char

\* A slip: the case of the character is kept.
SafeChar_KeepsCase(char) == IF IsAlnum(char) \/ char \in {"-", "_"} THEN char ELSE "-"

\* char.lower() if char.isalnum() or char in {"-", "_"} else "-"
SafeChar(char) == IF IsAlnum(char) \/ char \in {"-", "_"} THEN Lower(char) ELSE "-"

\* .strip("-"): the hyphens at both ends are removed
RECURSIVE StripLeft(_)
StripLeft(chars) ==
    IF chars # <<>> /\ Head(chars) = "-" THEN StripLeft(Tail(chars)) ELSE chars
RECURSIVE StripRight(_)
StripRight(chars) ==
    IF chars # <<>> /\ chars[Len(chars)] = "-"
    THEN StripRight(SubSeq(chars, 1, Len(chars) - 1))
    ELSE chars
Strip(chars) == StripRight(StripLeft(chars))

\* "".join(...) of characters
RECURSIVE Join(_)
Join(chars) == IF chars = <<>> THEN "" ELSE Head(chars) \o Join(Tail(chars))

\* safe_name of _write_report, as characters: "task" when nothing is left
SafeName(name) ==
    LET stripped == Strip([k \in 1..Len(Characters(name)) |-> SafeChar(Characters(name)[k])])
    IN  IF stripped = <<>> THEN <<"t", "a", "s", "k">> ELSE stripped

\* report_path = self.reports_dir / f"{safe_name}.md"
ReportPath(name) == Join(SafeName(name)) \o ".md"

\* The files reports_dir can come to hold; self.reports_dir.mkdir(exist_ok=True)
\* leaves a directory without any of them.
ReportPaths == {ReportPath(n) : n \in Names}
NoFile == <<"no file">>
NoReports == [f \in ReportPaths |-> NoFile]

\* An optional field of a Task that the task was built without is None.
TaskField(task, f) == IF f \in DOMAIN task THEN task[f] ELSE NoFeedback

\* result.output.get('summary', 'No summary available'), and the like
Get(mapping, key, default) == IF key \in DOMAIN mapping THEN mapping[key] ELSE default

\* One line of the execution timeline.
TimelineLine(step_result) ==
    "- **" \o step_result.step_id \o "** (attempt " \o ToString(step_result.attempt)
        \o ", "
        \o (IF Get(step_result.review, "approved", FALSE) THEN "Approved" ELSE "Pending")
        \o "): " \o Get(step_result.output, "summary", "No summary available")

\* TaskRunResult.to_markdown, as the list of lines it joins
ToMarkdown(r) ==
    <<"# Task Report: " \o r.task.name, "", "**Objective:** " \o r.task.objective>>
    \o (IF Truthy(TaskField(r.task, "context"))
        THEN <<"**Context:** " \o r.task.context>> ELSE <<>>)
    \o (IF Truthy(TaskField(r.task, "deliverable"))
        THEN <<"**Expected Deliverable:** " \o r.task.deliverable>> ELSE <<>>)
    \o <<"", "## Plan Overview", Get(r.plan, "plan_overview", "No overview provided."),
         "", "## Execution Timeline">>
    \o (IF r.step_results = <<>>
        THEN <<"No steps were executed.">>
        ELSE [k \in 1..Len(r.step_results) |-> TimelineLine(r.step_results[k])])
    \o <<"", "## Reviewer Verdict",
         Get(r.reviewer_summary, "feedback", "No reviewer feedback recorded."), "">>
    \o (IF Truthy(r.coordinator_summary)
        THEN <<"## Coordinator Summary", r.coordinator_summary, "">> ELSE <<>>)

\* Task.to_dict, StepResult.to_dict and TaskRunResult.to_dict
TaskToDict(task) ==
    [name |-> task.name, objective |-> task.objective,
     context |-> TaskField(task, "context"),
     deliverable |-> TaskField(task, "deliverable"), constraints |-> <<>>]
StepResultToDict(step_result) ==
    [step_id |-> step_result.step_id, step |-> step_result.step,
     output |-> step_result.output, review |-> step_result.review,
     attempt |-> step_result.attempt]
ToDict(r) ==
    [task |-> TaskToDict(r.task), plan |-> r.plan,
     step_results |-> [k \in 1..Len(r.step_results) |->
                          StepResultToDict(r.step_results[k])],
     reviewer_summary |-> r.reviewer_summary,
     coordinator_summary |-> r.coordinator_summary]

\* A slip: the file is opened for appending.
WriteText_Appends(old, text) == IF old = NoFile THEN text ELSE old \o text

\* report_path.write_text(...): the file holds the text, whatever it held
WriteText(old, text) == text

\* _write_report(result)
WriteReport(files, r) ==
    [files EXCEPT ![ReportPath(r.task.name)] = WriteText(@, ToMarkdown(r))]

(* --------------------------------- main -------------------------------- *)
\* main has not been entered.
NoMain == [pc |-> "none"]

(* ------------------------------- Init ---------------------------------- *)
\* run_task has not run yet: none of its locals holds a value.
RunTaskEntry ==
    /\ previous_plan = NoPlan
    /\ feedback = NoFeedback
    /\ plan_attempt = 0
    /\ plan = NoPlan
    /\ replan_attempts = 0
    /\ index = 0
    /\ step = NoStep
    /\ attempt = 0
    /\ attempt_feedback = NoFeedback
    /\ execution_output = NoOutput
    /\ step_attempts = <<>>
    /\ all_results = <<>>
    /\ approved_results = <<>>
    /\ reviewer_summary = NoReview
    /\ result = NoResult
    /\ error = NoError
    /\ hist = HistInit

\* SkillRegistry.__init__: no name is registered.
NoSkill == [none |-> TRUE]
SkillNames == {"math", "echo"}
NoSkills == [n \in SkillNames |-> NoSkill]
\* No call of the registry yet; first holds, per name, the skill of the first
\* registration that raised nothing.
NoCall == [op |-> "none", first |-> NoSkills]

\* ExecutorAgent.__init__ with max_skill_invocations = m; execute_step not called.
NoAction == [none |-> TRUE]
Executor(m) ==
    [pc |-> "idle", max_skill_invocations |-> m, invocations |-> 0,
     pending_message |-> "none", returned |-> NoOutput]
ExecutorIdle == Executor(MaxSkillInvocations)
SkillsIdle ==
    /\ skills = NoSkills
    /\ registry_call = NoCall
    /\ executor = ExecutorIdle
    /\ executor_log = <<>>

\* A workflow with any plan and step bounds up to the largest ones, and the replan
\* bound, about to run one task.
Init ==
    /\ cfg \in [max_plan_iterations : 1..MaxPlanIterations,
                max_step_iterations : 1..MaxStepIterations,
                max_replan_attempts : {MaxReplanAttempts},
                coordinator : BOOLEAN]
    /\ pc = "run_task"
    /\ tasks = <<DemoTask>>
    /\ position = 1
    /\ results = <<>>
    /\ chat_histories = NoHistories
    /\ reports = NoReports
    /\ main = NoMain
    /\ RunTaskEntry
    /\ SkillsIdle

(* ------------------------- control-flow pieces ------------------------- *)
\* The head of run_task's while loop: the next plan attempt, or the raise after it.
PlanLoopHead ==
    IF PlanLoopContinues(plan_attempt)
    THEN /\ plan_attempt' = plan_attempt + 1
         /\ pc' = "propose_plan"
         /\ error' = error
    ELSE /\ plan_attempt' = plan_attempt
         /\ pc' = "failed"
         /\ error' = PlanAttemptsError

\* A slip: the feedback of the step before is not cleared.
BeginStep_KeepsFeedback(i) ==
    /\ index' = i
    /\ step' = WithDefaultId(StepsOf(plan')[i], i)
    /\ attempt' = 1
    /\ attempt_feedback' = attempt_feedback
    /\ step_attempts' = <<>>
    /\ pc' = "execute_step"

\* One iteration of _execute_plan's for loop starts: the step at position i.
BeginStep(i) ==
    /\ index' = i
    /\ step' = WithDefaultId(StepsOf(plan')[i], i)
    /\ attempt' = 1
    /\ attempt_feedback' = NoFeedback
    /\ step_attempts' = <<>>
    /\ pc' = "execute_step"

\* _execute_plan has returned or raised: its locals no longer exist.
ExecutePlanReturns ==
    /\ index' = 0
    /\ step' = NoStep
    /\ attempt' = 0
    /\ attempt_feedback' = NoFeedback
    /\ step_attempts' = <<>>
    /\ all_results' = <<>>
    /\ approved_results' = <<>>
    /\ execution_output' = NoOutput

(* ------------------------------ actions -------------------------------- *)
\* run_task is entered: the optional kickoff, the locals, the first loop test.
RunTask ==
    /\ pc = "run_task"
    /\ previous_plan' = NoPlan
    /\ feedback' = NoFeedback
    /\ PlanLoopHead
    /\ hist' = [hist EXCEPT !.n_kickoff = IF cfg.coordinator THEN @ + 1 ELSE @]
    /\ UNCHANGED <<static, reports, chat_histories, plan, replan_attempts, execLocals,
                   reviewer_summary, result>>

\* plan = self.planner.propose_plan(task, feedback=..., previous_plan=...)
ProposePlanReturns(p) ==
    /\ pc = "propose_plan"
    /\ plan' = p
    /\ pc' = "review_plan"
    /\ hist' = [hist EXCEPT !.n_propose = @ + 1,
                            !.last_propose = [feedback |-> feedback,
                                              previous_plan |-> previous_plan]]
    /\ chat_histories' = GenerateResponse(chat_histories, PlanConversation(TheTask))
    /\ UNCHANGED <<static, reports, previous_plan, feedback, plan_attempt, replan_attempts,
                   execLocals, reviewer_summary, result, error>>

ProposePlan == \E p \in Plans : ProposePlanReturns(p)

\* plan_review = self.reviewer.review_plan(...), then the rejection branch or the
\* start of _execute_plan.
ReviewPlanReturns(review) ==
    /\ pc = "review_plan"
    /\  LET says_approved == "approved" \in DOMAIN review /\ review.approved
            reviewed == [hist EXCEPT !.n_review_plan = @ + 1,
                                     !.n_rejected = IF says_approved THEN @ ELSE @ + 1,
                                     !.last_plan_review = review]
        IN
        IF ~PlanApproved(review)
        THEN \* feedback = ...; previous_plan = plan; continue
             /\ feedback' = review.feedback
             /\ previous_plan' = plan
             /\ PlanLoopHead
             /\ hist' = [reviewed EXCEPT !.cause = [kind |-> "plan_rejected",
                                                    feedback |-> review.feedback,
                                                    plan |-> plan,
                                                    at |-> hist.n_propose]]
             /\ UNCHANGED <<plan, replan_attempts, execLocals, reviewer_summary, result>>
        ELSE \* replan_attempts = 0; self._execute_plan(task, plan) up to its first call
             /\ replan_attempts' = 0
             /\ plan' = plan
             /\ hist' = [reviewed EXCEPT !.execs = <<>>, !.trips = <<>>]
             /\ IF ~StepsIsList(plan)
                THEN /\ pc' = "failed"
                     /\ error' = StepsError
                     /\ UNCHANGED <<index, step, attempt, attempt_feedback, step_attempts,
                                    all_results, approved_results>>
                ELSE /\ all_results' = <<>>
                     /\ approved_results' = <<>>
                     /\ error' = error
                     /\ IF HasStep(plan, 1)
                        THEN BeginStep(1)
                        ELSE /\ pc' = "final_review"
                             /\ UNCHANGED <<index, step, attempt, attempt_feedback,
                                            step_attempts>>
             /\ UNCHANGED <<previous_plan, feedback, plan_attempt, execution_output,
                            reviewer_summary, result>>
    /\ UNCHANGED <<static, reports, chat_histories>>

ReviewPlan == \E review \in PlanReviews : ReviewPlanReturns(review)

\* execution_output = self.executor.execute_step(task, step, prior_results=..., feedback=...)
ExecuteStep ==
    /\ pc = "execute_step"
    /\ \E output \in Outputs : execution_output' = output
    /\ pc' = "review_step"
    /\ hist' = [hist EXCEPT !.execs = Append(@, [pos |-> index, step |-> step,
                                                  attempt |-> attempt,
                                                  feedback |-> attempt_feedback,
                                                  prior_results |-> approved_results])]
    /\ UNCHANGED <<static, reports, chat_histories, runLocals, index, step, attempt,
                   attempt_feedback, step_attempts, all_results, approved_results,
                   reviewer_summary, result, error>>

\* step_review = self.reviewer.review_step(...), then whatever follows it up to the
\* next collaborator call: approval, replan signal, retry, or exhaustion.
ReviewStep ==
    /\ pc = "review_step"
    /\ \E review \in StepReviews :
        LET step_result == StepResult(step, execution_output, review, attempt)
            attempts == Append(step_attempts, step_result)
            trip == [pos |-> index, attempt |-> attempt, output |-> execution_output,
                     review |-> review, step |-> step]
        IN
        /\ plan' = plan
        /\ IF StepApproved(review)
           THEN \* approved_results.append; break; all_results.extend; next step
                /\ approved_results' = ForwardApproved(approved_results, step_result)
                /\ all_results' = ExtendResults(all_results, attempts)
                /\ IF HasStep(plan, index + 1)
                   THEN BeginStep(index + 1)
                   ELSE /\ pc' = "final_review"
                        /\ step_attempts' = attempts
                        /\ UNCHANGED <<index, step, attempt, attempt_feedback>>
                /\ hist' = [hist EXCEPT !.trips = Append(@, trip)]
                /\ UNCHANGED <<previous_plan, feedback, plan_attempt, replan_attempts, error,
                               execution_output>>
           ELSE IF RequiresReplan(review)
           THEN \* require_replan = True; break; all_results.extend; return None, feedback
                /\ replan_attempts' = replan_attempts + 1
                /\ IF ReplanExceeded(replan_attempts + 1)
                   THEN /\ pc' = "failed"
                        /\ error' = ReplanError
                        /\ hist' = [hist EXCEPT !.trips = Append(@, trip)]
                        /\ UNCHANGED <<previous_plan, feedback, plan_attempt>>
                   ELSE /\ feedback' = ReplanFeedback(review.feedback)
                        /\ previous_plan' = plan
                        /\ PlanLoopHead
                        /\ hist' = [hist EXCEPT !.trips = <<>>, !.execs = <<>>,
                                                !.discarded = @ \/ ExtendResults(all_results, attempts) # <<>>,
                                                !.n_replans = @ + 1,
                                                !.cause = [kind |-> "replan",
                                                           approved |-> review.approved,
                                                           feedback |-> review.feedback,
                                                           plan |-> plan,
                                                           at |-> hist.n_propose]]
                /\ ExecutePlanReturns
           ELSE \* attempt_feedback = step_review.get("feedback"); next attempt or exhaustion
                /\ attempt_feedback' = review.feedback
                /\ step_attempts' = attempts
                /\ IF StepLoopContinues(attempt)
                   THEN /\ attempt' = attempt + 1
                        /\ pc' = "execute_step"
                        /\ UNCHANGED <<all_results, error>>
                   ELSE /\ all_results' = ExtendResults(all_results, attempts)
                        /\ pc' = "failed"
                        /\ error' = StepAttemptsError(step)
                        /\ attempt' = attempt
                /\ hist' = [hist EXCEPT !.trips = Append(@, trip)]
                /\ UNCHANGED <<previous_plan, feedback, plan_attempt, replan_attempts,
                               index, step, approved_results, execution_output>>
    /\ UNCHANGED <<static, reports, chat_histories, reviewer_summary, result>>

\* reviewer_summary = self.reviewer.final_review(task, plan, all_results); without a
\* coordinator the TaskRunResult is built, the report written and the result returned.
FinalReview ==
    /\ pc = "final_review"
    /\ \E summary \in FinalReviews :
        /\ reviewer_summary' = summary
        /\ IF cfg.coordinator
           THEN /\ pc' = "synthesise_outcome"
                /\ result' = result
                /\ hist' = [hist EXCEPT !.n_final_review = @ + 1]
                /\ reports' = reports
           ELSE /\ pc' = "done"
                /\ result' = TaskRunResult(plan, all_results, summary, NoSummary)
                /\ reports' = WriteReport(reports, result')
                /\ hist' = [hist EXCEPT !.n_final_review = @ + 1, !.n_reports = @ + 1]
    /\ UNCHANGED <<static, chat_histories, runLocals, execLocals, error>>

\* coordinator_summary = self.coordinator.synthesise_outcome(...); then the
\* TaskRunResult, the report and the return.
SynthesiseOutcome ==
    /\ pc = "synthesise_outcome"
    /\ \E narrative \in Narratives :
        result' = TaskRunResult(plan, all_results, reviewer_summary, narrative)
    /\ reports' = WriteReport(reports, result')
    /\ pc' = "done"
    /\ hist' = [hist EXCEPT !.n_synthesise = @ + 1, !.n_reports = @ + 1]
    /\ UNCHANGED <<static, chat_histories, runLocals, execLocals, reviewer_summary, error>>

Next ==
    \/ RunTask
    \/ ProposePlan
    \/ ReviewPlan
    \/ ExecuteStep
    \/ ReviewStep
    \/ FinalReview
    \/ SynthesiseOutcome

Spec == Init /\ [][Next]_vars

(* ------------------- responses of another shape ------------------------ *)
\* The calls whose response is parsed with json.loads before it is returned.
ParsedCalls == {"propose_plan", "review_plan", "execute_step", "review_step", "final_review"}

\* The error of json.loads, raised inside the collaborator and not caught by
\* run_task.
ParseError(call) == [kind |-> "json_decode", task |-> "", step_id |-> NoId, call |-> call]

\* The planner returns a mapping without 'steps'.
ProposePlanMalformed == \E p \in MalformedPlans : ProposePlanReturns(p)

\* The reviewer returns a plan review without 'approved'.
ReviewPlanMalformed == \E review \in MalformedPlanReviews : ReviewPlanReturns(review)

\* The model's text is no json: return json.loads(response) raises. The history
\* counts the calls that returned a response, so it stays as it is.
ResponseUnparsable ==
    /\ pc \in ParsedCalls
    /\ pc' = "failed"
    /\ error' = ParseError(pc)
    /\ chat_histories' = IF pc = "propose_plan"
                          THEN GenerateResponse(chat_histories, PlanConversation(TheTask))
                          ELSE chat_histories
    /\ UNCHANGED <<static, reports, runLocals, execLocals, reviewer_summary, result, hist>>

\* run_task with collaborators whose responses may be of another shape.
NextMalformed ==
    \/ Next
    \/ ProposePlanMalformed
    \/ ReviewPlanMalformed
    \/ ResponseUnparsable

SpecMalformed == Init /\ [][NextMalformed]_vars

(* ------------------------------ run_all -------------------------------- *)
\* The batches: every sequence of up to MaxTasks tasks of the pool.
Batches == UNION {[1..n -> TaskPool] : n \in 0..MaxTasks}

\* The configurations of the workflows that run a batch: one attempt of each kind
\* per task, with or without a coordinator.
BatchConfigs ==
    [max_plan_iterations : {1}, max_step_iterations : {1},
     max_replan_attempts : {1}, coordinator : BOOLEAN]

\* A workflow with fresh agents, about to run a batch.
InitAll ==
    /\ cfg \in BatchConfigs
    /\ pc = "run_all"
    /\ tasks \in Batches
    /\ position = 0
    /\ results = <<>>
    /\ chat_histories = NoHistories
    /\ reports = NoReports
    /\ main = NoMain
    /\ RunTaskEntry
    /\ SkillsIdle

\* A slip: the list is rebuilt from the latest result.
Collect_OnlyLatest(so_far, r) == <<r>>

\* results.append(result)
Collect(so_far, r) == Append(so_far, r)

\* run_all is entered: results = []; the for loop takes the first task, or returns
\* the empty list for an empty batch.
RunAll ==
    /\ pc = "run_all"
    /\ results' = <<>>
    /\ IF tasks = <<>>
       THEN pc' = "returned" /\ position' = position
       ELSE pc' = "run_task" /\ position' = 1
    /\ UNCHANGED <<cfg, tasks, chat_histories, runLocals, execLocals, reviewer_summary,
                   result, error, hist, reports, main, skills, registry_call, executor,
                   executor_log>>

\* run_task has returned its TaskRunResult: it is appended, run_task's locals are
\* gone, and the loop takes the next task or run_all returns the list.
TaskReturns ==
    /\ pc = "done"
    /\ results' = Collect(results, result)
    /\ IF position < Len(tasks)
       THEN pc' = "run_task" /\ position' = position + 1
       ELSE pc' = "returned" /\ position' = position
    /\ previous_plan' = NoPlan
    /\ feedback' = NoFeedback
    /\ plan_attempt' = 0
    /\ plan' = NoPlan
    /\ replan_attempts' = 0
    /\ ExecutePlanReturns
    /\ reviewer_summary' = NoReview
    /\ result' = NoResult
    /\ hist' = HistInit
    /\ UNCHANGED <<cfg, tasks, chat_histories, error, reports, main, skills,
                   registry_call, executor, executor_log>>

\* run_all with everything run_task does; an error of run_task is not caught, so a
\* failed run_task ends run_all.
NextAll ==
    \/ RunAll
    \/ RunTask
    \/ ProposePlan
    \/ ReviewPlan
    \/ ExecuteStep
    \/ ReviewStep
    \/ FinalReview
    \/ SynthesiseOutcome
    \/ TaskReturns

SpecAll == InitAll /\ [][NextAll]_vars

(* --------------------------- SkillRegistry ----------------------------- *)
\* A workflow that exists and runs nothing.
DefaultConfig ==
    [max_plan_iterations |-> 3, max_step_iterations |-> 3, max_replan_attempts |-> 2,
     coordinator |-> FALSE]
WorkflowIdle ==
    /\ cfg = DefaultConfig
    /\ pc = "idle"
    /\ tasks = <<>>
    /\ position = 0
    /\ results = <<>>
    /\ chat_histories = NoHistories
    /\ reports = NoReports
    /\ main = NoMain
    /\ RunTaskEntry
workflowVars ==
    <<cfg, pc, runLocals, execLocals, reviewer_summary, result, error, hist,
      tasks, position, results, chat_histories, reports, main>>

workflowVars_NoMain ==
    <<cfg, pc, runLocals, execLocals, reviewer_summary, result, error, hist,
      tasks, position, results, chat_histories, reports>>

\* The operations and descriptions skills are registered with.
Operations == {"f", "g"}
Descriptions == {"d1", "d2"}
NoOperation == "none"

\* signature = str(inspect.signature(function))
Signature(function) == "(" \o function \o ")"

\* Skill(name=name, description=description, function=function, signature=signature)
Skill(name, function, description) ==
    [name |-> name, description |-> description, function |-> function,
     signature |-> Signature(function)]

\* A slip: the test for a name that is already there is missing.
Registered_Never(s, name) == FALSE

\* name in self._skills
Registered(s, name) == s[name] # NoSkill

\* What a registered operation does when called: it returns a text or another
\* object, or raises; arguments that do not fit its signature raise a TypeError
\* before its body runs.
Behaviours == {"text", "object", "raises"}
ArgumentKinds == {"matching", "mismatch"}

\* Skill.execute: result if isinstance(result, str) else repr(result)
SkillExecute(skill, arguments, behaviour) ==
    IF arguments # "matching"
    THEN [raised |-> "TypeError", invoked |-> NoOperation, output |-> "none"]
    ELSE IF behaviour = "raises"
    THEN [raised |-> "RuntimeError", invoked |-> skill.function, output |-> "none"]
    ELSE [raised |-> "none", invoked |-> skill.function,
          output |-> IF behaviour = "text" THEN "text" ELSE "repr(object)"]

\* SkillRegistry.execute(name, **kwargs)
RegistryExecute(s, name, arguments, behaviour) ==
    IF ~Registered(s, name)
    THEN [raised |-> "KeyError", invoked |-> NoOperation, output |-> "none"]
    ELSE SkillExecute(s[name], arguments, behaviour)

\* SkillRegistry.register(name, function, description)
Register ==
    \E name \in SkillNames, function \in Operations, description \in Descriptions :
        LET conflict == Registered(skills, name)
            call == [op |-> "register", name |-> name, function |-> function,
                     description |-> description, before |-> skills,
                     raised |-> IF conflict THEN "ValueError" ELSE "none",
                     invoked |-> NoOperation]
            first == IF ~conflict /\ registry_call.first[name] = NoSkill
                     THEN [registry_call.first EXCEPT
                               ![name] = Skill(name, function, description)]
                     ELSE registry_call.first
        IN
        /\ skills' = IF conflict THEN skills
                      ELSE [skills EXCEPT ![name] = Skill(name, function, description)]
        /\ registry_call' = call @@ [first |-> first]
        /\ UNCHANGED <<workflowVars, executor, executor_log>>

\* SkillRegistry.execute(name, **kwargs), called from anywhere.
Execute ==
    \E name \in SkillNames, arguments \in ArgumentKinds, behaviour \in Behaviours :
        LET out == RegistryExecute(skills, name, arguments, behaviour) IN
        /\ registry_call' = [op |-> "execute", name |-> name, before |-> skills,
                              raised |-> out.raised, invoked |-> out.invoked,
                              output |-> out.output, first |-> registry_call.first]
        /\ UNCHANGED <<skills, workflowVars, executor, executor_log>>

InitRegistry ==
    /\ WorkflowIdle
    /\ SkillsIdle

NextRegistry ==
    \/ Register
    \/ Execute

SpecRegistry == InitRegistry /\ [][NextRegistry]_vars

(* ----------------------------- _write_report --------------------------- *)
\* The TaskRunResults of successful runs whose reports are written: for every name
\* a run of the empty plan without a coordinator, and a run of a one-step plan
\* whose step took two attempts, with a context and a coordinator summary.
ReportedResults ==
    LET s1 == WithDefaultId([id |-> NoId], 1)
        rejected == [approved |-> FALSE, requires_replan |-> FALSE, feedback |-> "fb1"]
        approved == [approved |-> TRUE, requires_replan |-> FALSE, feedback |-> "fb1"]
    IN  {[task |-> [name |-> n, objective |-> "demo"],
          plan |-> PlanOf(<<>>), step_results |-> <<>>,
          reviewer_summary |-> [approved |-> TRUE, feedback |-> "ok"],
          coordinator_summary |-> NoSummary] : n \in Names}
        \cup
        {[task |-> [name |-> n, objective |-> "demo", context |-> "ctx"],
          plan |-> PlanOf(<<NoId>>),
          step_results |-> <<StepResult(s1, [summary |-> "done"], rejected, 1),
                             StepResult(s1, [summary |-> "done"], approved, 2)>>,
          reviewer_summary |-> [approved |-> TRUE, feedback |-> "ok"],
          coordinator_summary |-> "narrative"] : n \in Names}

\* _execute_plan has built the TaskRunResult of a successful run (lines 261-267).
TaskSucceeds ==
    /\ pc = "idle"
    /\ Len(results) < MaxTasks
    /\ \E r \in ReportedResults : result' = r
    /\ pc' = "write_report"
    /\ UNCHANGED <<cfg, runLocals, execLocals, reviewer_summary, error, hist, tasks,
                   position, results, chat_histories, reports, main, skills,
                   registry_call, executor, executor_log>>

\* self._write_report(result) and the return; run_all appends the result. Neither
\* to_markdown nor _write_report assigns to the result.
WriteReportCall ==
    /\ pc = "write_report"
    /\ reports' = WriteReport(reports, result)
    /\ results' = Collect(results, result)
    /\ pc' = "idle"
    /\ UNCHANGED <<cfg, runLocals, execLocals, reviewer_summary, result, error, hist,
                   tasks, position, chat_histories, main, skills, registry_call,
                   executor, executor_log>>

InitReports ==
    /\ WorkflowIdle
    /\ SkillsIdle

NextReports ==
    \/ TaskSucceeds
    \/ WriteReportCall

SpecReports == InitReports /\ [][NextReports]_vars

(* ---------------------------------- main ------------------------------- *)
\* What the --tasks path can lead to: no file, a file that is no json, or a json
\* array of tasks (which may be empty).
TaskFiles ==
    {[kind |-> "missing", items |-> <<>>], [kind |-> "unparsable", items |-> <<>>]}
        \cup {[kind |-> "tasks", items |-> b] : b \in Batches}

\* os.getenv("OPENAI_API_KEY"): unset, set to the empty text, or set to a key.
ApiKeys == {NoFeedback, "", "sk-key"}

\* The components main constructs once the credential is there.
Components == {"planner", "reviewer", "coordinator", "executor"}

\* main is entered with a task file and an environment.
Main(file, key) ==
    [pc |-> "load_tasks", task_file |-> file, api_key |-> key, tasks |-> <<>>,
     log_file |-> FALSE, skill_registry |-> FALSE, agents |-> {}, workflow |-> FALSE,
     requests |-> FALSE, printed |-> "none", error |-> "none"]

\* tasks = load_tasks(args.tasks); if not tasks: print(...); return
LoadTasks ==
    /\ main.pc = "load_tasks"
    /\ main' =
         CASE main.task_file.kind = "missing" ->
                [main EXCEPT !.pc = "raised", !.error = "FileNotFoundError"]
           [] main.task_file.kind = "unparsable" ->
                [main EXCEPT !.pc = "raised", !.error = "JSONDecodeError"]
           [] OTHER ->
                IF main.task_file.items = <<>>
                THEN [main EXCEPT !.pc = "returned", !.printed = "no tasks"]
                ELSE [main EXCEPT !.pc = "check_credential",
                                  !.tasks = main.task_file.items]
    /\ UNCHANGED <<workflowVars_NoMain, skills, registry_call, executor, executor_log>>

\* if not api_key: raise RuntimeError(...)
HasCredential(key) == Truthy(key)

\* api_key = os.getenv("OPENAI_API_KEY") and the test of it
CheckCredential ==
    /\ main.pc = "check_credential"
    /\ main' = IF HasCredential(main.api_key)
               THEN [main EXCEPT !.pc = "set_up"]
               ELSE [main EXCEPT !.pc = "raised", !.error = "RuntimeError"]
    /\ UNCHANGED <<workflowVars_NoMain, skills, registry_call, executor, executor_log>>

\* The log file, the skill registry, the four agents and the workflow are made.
SetUp ==
    /\ main.pc = "set_up"
    /\ main' = [main EXCEPT !.pc = "run_all", !.log_file = TRUE,
                             !.skill_registry = TRUE, !.agents = Components,
                             !.workflow = TRUE]
    /\ UNCHANGED <<workflowVars_NoMain, skills, registry_call, executor, executor_log>>

\* workflow.run_all(tasks) makes its requests and returns, or raises the error of
\* a failed run; after a return main prints where the reports are.
RunAllCall ==
    /\ main.pc = "run_all"
    /\ \E outcome \in {"returned", "raised"} :
        main' = IF outcome = "returned"
                THEN [main EXCEPT !.pc = "returned", !.requests = TRUE,
                                  !.printed = "completed"]
                ELSE [main EXCEPT !.pc = "raised", !.requests = TRUE,
                                  !.error = "RuntimeError in run_all"]
    /\ UNCHANGED <<workflowVars_NoMain, skills, registry_call, executor, executor_log>>

InitMain ==
    /\ cfg = DefaultConfig
    /\ pc = "idle"
    /\ tasks = <<>>
    /\ position = 0
    /\ results = <<>>
    /\ chat_histories = NoHistories
    /\ reports = NoReports
    /\ RunTaskEntry
    /\ SkillsIdle
    /\ main \in {Main(file, key) : file \in TaskFiles, key \in ApiKeys}

NextMain ==
    \/ LoadTasks
    \/ CheckCredential
    \/ SetUp
    \/ RunAllCall

SpecMain == InitMain /\ [][NextMain]_vars

(* ---------------------- ExecutorAgent.execute_step --------------------- *)
\* The registries an executor is built with: an empty one, and one with "math".
Registries == {NoSkills, [NoSkills EXCEPT !["math"] = Skill("math", "f", "d1")]}

\* Parsed model responses of the executor: without an 'action', with an action
\* that names no skill, and with an action naming a skill with arguments that fit
\* the operation, do not fit it, or are null instead of an object.
ExecutorResponses ==
    {[summary |-> "done", action |-> NoAction],
     [summary |-> "done", action |-> [skill |-> "", arguments |-> "matching"]]}
        \cup {[summary |-> "wip", action |-> [skill |-> n, arguments |-> a]] :
                 n \in SkillNames, a \in ArgumentKinds \cup {"null"}}

\* action = parsed_response.get("action") or {}; skill_name = action.get("skill")
SkillNameOf(response) ==
    IF response.action = NoAction THEN "" ELSE response.action.skill

\* A slip: only the registry's own not-found error is caught.
Catches_OnlyKeyError(exception) == exception = "KeyError"

\* except Exception as exc
Catches(exception) == exception \in {"KeyError", "TypeError", "RuntimeError", "ValueError"}

\* A slip: the budget allows one invocation too many.
InvokesSkill_OffByOne(response, invocations) ==
    /\ SkillNameOf(response) # ""
    /\ invocations <= executor.max_skill_invocations

\* if skill_name and invocations < self.max_skill_invocations
InvokesSkill(response, invocations) ==
    /\ SkillNameOf(response) # ""
    /\ invocations < executor.max_skill_invocations

\* self.skill_registry.execute(skill_name, **arguments): unpacking arguments that
\* are no mapping raises a TypeError at the call.
CallSkill(response, behaviour) ==
    IF response.action.arguments = "null"
    THEN [raised |-> "TypeError", invoked |-> NoOperation, output |-> "none"]
    ELSE RegistryExecute(skills, response.action.skill, response.action.arguments,
                         behaviour)

\* execute_step is entered: pending_message = base_message; invocations = 0
ExecuteStepCall ==
    /\ executor.pc = "idle"
    /\ executor' = [executor EXCEPT !.pc = "generate_response",
                                     !.pending_message = "base",
                                     !.invocations = 0]
    /\ UNCHANGED <<workflowVars, skills, registry_call, executor_log>>

\* One turn of execute_step's loop: the model call with the pending message, then
\* either a skill invocation whose result or error becomes the next pending
\* message, or the return of the parsed response.
ModelResponds ==
    /\ executor.pc = "generate_response"
    /\ \E response \in ExecutorResponses, behaviour \in Behaviours :
        IF InvokesSkill(response, executor.invocations)
        THEN LET out == CallSkill(response, behaviour) IN
             /\ executor_log' = Append(executor_log,
                                       [message |-> executor.pending_message,
                                        response |-> response,
                                        skill |-> IF out.raised = "none" THEN "ok"
                                                  ELSE out.raised])
             /\ IF out.raised = "none"
                THEN executor' = [executor EXCEPT !.invocations = @ + 1,
                                                  !.pending_message = "skill_result"]
                ELSE IF Catches(out.raised)
                THEN executor' = [executor EXCEPT !.invocations = @ + 1,
                                                  !.pending_message = "skill_error"]
                ELSE executor' = [executor EXCEPT !.pc = "raised"]
        ELSE /\ executor_log' = Append(executor_log,
                                       [message |-> executor.pending_message,
                                        response |-> response,
                                        skill |-> "not_invoked"])
             /\ executor' = [executor EXCEPT !.pc = "returned",
                                              !.returned = response]
    /\ UNCHANGED <<workflowVars, skills, registry_call>>

InitExecutor ==
    /\ WorkflowIdle
    /\ skills \in Registries
    /\ registry_call = NoCall
    /\ executor \in {Executor(m) : m \in 0..MaxSkillInvocations}
    /\ executor_log = <<>>

NextExecutor ==
    \/ ExecuteStepCall
    \/ ModelResponds

SpecExecutor == InitExecutor /\ [][NextExecutor]_vars

(* ======================= properties of run_task ======================== *)
Last(s) == s[Len(s)]
Count(s, Test(_)) == Cardinality({k \in 1..Len(s) : Test(s[k])})

\* The engine is between the approval of a plan and the end of its execution.
Executing == pc \in {"execute_step", "review_step"}
Finishing == pc \in {"final_review", "synthesise_outcome", "done"}

\* The StepResult the engine is expected to hold for a round-trip of the history.
ResultOfTrip(t) ==
    [step_id |-> t.step.id, step |-> t.step, output |-> t.output, review |-> t.review,
     attempt |-> t.attempt]
ResultsOfTrips(ts) == [k \in 1..Len(ts) |-> ResultOfTrip(ts[k])]

\* The round-trips of the current plan attempt that were completed before its k-th
\* execute_step call was made.
TripsBefore(k) == SubSeq(hist.trips, 1, k - 1)

(* C1: within a plan attempt the steps are executed strictly in plan order: every
   execute_step call is for a position of the plan, every lower position has an
   approved review_step made before that call, and no call is for a position lower
   than that of the call before it. *)
C1_StepsInPlanOrder ==
    \A k \in 1..Len(hist.execs) :
        LET e == hist.execs[k] IN
        /\ e.pos \in 1..Len(plan.steps.items)
        /\ k > 1 => hist.execs[k - 1].pos <= e.pos
        /\ \A i \in 1..(e.pos - 1) :
               \E m \in 1..(k - 1) :
                   hist.trips[m].pos = i /\ hist.trips[m].review.approved

\* The second step is being executed after the first one needed a retry.
C1_Witness ==
    /\ pc = "review_step"
    /\ Len(hist.execs) = 3
    /\ hist.execs[3].pos = 2
    /\ ~hist.trips[1].review.approved

(* C2: when a plan is rejected k times (k < max_plan_iterations) and then approved,
   exactly k+1 propose_plan and k+1 review_plan calls have been made when its
   execution starts, and none is added while every step is approved up to the
   returned result. *)
C2_ProposalsPerRejection ==
    (hist.n_replans = 0 /\ (Executing \/ Finishing)) =>
        /\ hist.n_rejected < cfg.max_plan_iterations
        /\ hist.n_propose = hist.n_rejected + 1
        /\ hist.n_review_plan = hist.n_rejected + 1

\* A run returned a result after two plan rejections and no replan.
C2_Witness ==
    /\ pc = "done"
    /\ hist.n_rejected = 2
    /\ hist.n_replans = 0
    /\ Len(result.step_results) >= 2

(* C3: for a step approved on attempt a, exactly a execute_step and a review_step
   calls were made for it in this plan attempt, and every later execute_step call
   receives as prior results exactly one StepResult per approved step before it,
   the one of the approving attempt. *)
C3_RoundTripsPerApprovedStep ==
    /\ \A m \in 1..Len(hist.trips) :
           LET t == hist.trips[m]
               AtPos(x) == x.pos = t.pos
           IN  t.review.approved =>
                   /\ Count(hist.execs, AtPos) = t.attempt
                   /\ Count(hist.trips, AtPos) = t.attempt
    /\ \A k \in 1..Len(hist.execs) :
           LET IsApproved(t) == t.review.approved IN
           hist.execs[k].prior_results
               = ResultsOfTrips(SelectSeq(TripsBefore(k), IsApproved))
    /\ (Executing \/ Finishing) =>
           LET IsApproved(t) == t.review.approved IN
           approved_results = ResultsOfTrips(SelectSeq(hist.trips, IsApproved))

\* The second step is executed with the first step's second, approving attempt.
C3_Witness ==
    /\ pc = "review_step"
    /\ index = 2
    /\ Len(approved_results) = 1
    /\ approved_results[1].attempt = 2
    /\ Len(hist.execs) = 3

\* The feedback run_task hands to the planner after a replan signal whose review
\* carried the feedback f.
FeedbackAfterReplan(f) == IF f \in {NoFeedback, ""} THEN DefaultReplanFeedback ELSE f

\* The latest event that sent the engine back to planning was a replan signal, and
\* no plan has been proposed since.
ReplanPending == hist.cause.kind = "replan" /\ hist.n_propose = hist.cause.at

(* C4 as stated: after a step review with requires_replan=true and approved=false
   the next propose_plan call receives the current plan as previous_plan and the
   feedback of that review as feedback. *)
C4_Original ==
    (ReplanPending /\ pc = "propose_plan") =>
        /\ previous_plan = hist.cause.plan
        /\ feedback = hist.cause.feedback

(* C4 as amended: after such a review the next call of the engine, if any, is a
   propose_plan (no execute_step, review_step or final_review); it receives the
   current plan as previous_plan and as feedback the feedback of the review, or the
   fixed default text when that feedback is missing or empty; when no plan attempt
   is left the run fails with the plan-attempts error instead. *)
C4_ReplanReturnsToPlanning ==
    hist.cause.kind = "replan" =>
        IF hist.n_propose = hist.cause.at
        THEN /\ pc \in {"propose_plan", "failed"}
             /\ hist.n_final_review = 0
             /\ result = NoResult
             /\ pc = "propose_plan" =>
                    /\ previous_plan = hist.cause.plan
                    /\ feedback = FeedbackAfterReplan(hist.cause.feedback)
             /\ pc = "failed" =>
                    /\ error = PlanAttemptsError
                    /\ hist.n_propose = cfg.max_plan_iterations
        ELSE /\ hist.n_propose = hist.cause.at + 1
             /\ hist.last_propose =
                    [feedback |-> FeedbackAfterReplan(hist.cause.feedback),
                     previous_plan |-> hist.cause.plan]

\* A plan was proposed after a replan signal whose review carried no feedback,
\* on a plan that had been proposed with the feedback of a plan rejection.
C4_Witness ==
    /\ pc = "review_plan"
    /\ hist.cause.kind = "replan"
    /\ hist.cause.feedback = NoFeedback
    /\ hist.n_rejected = 1
    /\ hist.last_propose.previous_plan = PlanOf(<<"a", NoId>>)

(* C5: when a step gets max_step_iterations consecutive reviews that neither
   approve nor ask for a replan, run_task fails with the step-attempts error naming
   the id of that step; nothing further is called and no result is returned. *)
C5_StepAttemptsExhausted ==
    LET n == Len(hist.trips)
        ms == cfg.max_step_iterations
    IN  (/\ n >= ms
         /\ \A k \in (n - ms + 1)..n :
                /\ hist.trips[k].pos = hist.trips[n].pos
                /\ ~hist.trips[k].review.approved
                /\ ~hist.trips[k].review.requires_replan) =>
            /\ pc = "failed"
            /\ error.kind = "step_attempts"
            /\ error.step_id = hist.trips[n].step.id
            /\ error.step_id # NoId
            /\ result = NoResult
            /\ hist.n_final_review = 0
            /\ Len(hist.execs) = n
            /\ ~ENABLED Next

\* The second step of a plan used up two attempts after a plan rejection.
C5_Witness ==
    /\ pc = "failed"
    /\ error.kind = "step_attempts"
    /\ error.step_id = "step-2"
    /\ cfg.max_step_iterations = 2
    /\ hist.n_rejected = 1

(* C6 as stated: a run returns to planning because of a replan signal at most
   max_replan_attempts times; a further replan signal makes the run fail instead of
   leading to another propose_plan call. *)
C6_Original ==
    pc = "propose_plan" => hist.n_replans <= cfg.max_replan_attempts

(* C7: the number of propose_plan calls of a run never exceeds max_plan_iterations,
   whether they follow a plan rejection or a replan signal, and when the
   max_plan_iterations-th plan is rejected by review_plan the run fails with the
   plan-attempts error. *)
C7_ProposalsBounded ==
    /\ hist.n_propose <= cfg.max_plan_iterations
    /\ hist.n_propose = (IF pc = "propose_plan" THEN plan_attempt - 1 ELSE plan_attempt)
    /\ (/\ hist.n_review_plan = cfg.max_plan_iterations
        /\ ~hist.last_plan_review.approved) =>
            /\ pc = "failed"
            /\ error = PlanAttemptsError
            /\ result = NoResult

\* The third plan was rejected after one earlier rejection and one replan signal.
C7_Witness ==
    /\ pc = "failed"
    /\ error = PlanAttemptsError
    /\ hist.n_propose = 3
    /\ hist.n_rejected = 2
    /\ hist.n_replans = 1

\* What ended a failed run, read off the history.
EndedByReplanSignal == ReplanPending
EndedByPlanRejection ==
    hist.cause.kind = "plan_rejected" /\ hist.n_propose = hist.cause.at
EndedByStepAttempts ==
    /\ hist.trips # <<>>
    /\ ~Last(hist.trips).review.approved
    /\ ~Last(hist.trips).review.requires_replan

(* C8 as stated: every failure caused by an exhausted bound names the task and the
   bound that was hit: the plan-attempt bound after plan rejections, the
   step-attempt bound when a step was never approved, the replan bound after
   repeated replan signals. *)
C8_Original ==
    (pc = "failed" /\ error # StepsError) =>
        /\ error.task = TheTask.name
        /\ EndedByPlanRejection => error.kind = "plan_attempts"
        /\ EndedByStepAttempts => error.kind = "step_attempts"
        /\ EndedByReplanSignal => error.kind = "replan_attempts"

(* C9 as stated: the step_results of the returned TaskRunResult hold one StepResult
   for every execute_step/review_step round-trip of the run, in the order made,
   including those made under plans later aborted by a replan signal. *)
C9_Original ==
    pc = "done" =>
        /\ ~hist.discarded
        /\ result.step_results = ResultsOfTrips(hist.trips)

(* C9 as amended: the step_results of the returned TaskRunResult hold one StepResult
   for every round-trip made under the plan attempt that ran to completion, in the
   order made, rejected attempts included; the round-trips made under plan attempts
   that a replan signal aborted are not in it. *)
C9_ResultsOfFinalPlanAttempt ==
    pc = "done" =>
        /\ result # NoResult
        /\ result.step_results = ResultsOfTrips(hist.trips)
        /\ result.plan = plan

\* A result returned after a replan, holding a rejected and an approved attempt.
C9_Witness ==
    /\ pc = "done"
    /\ hist.discarded
    /\ Len(result.step_results) >= 3
    /\ ~result.step_results[1].review.approved

(* C10: when the approved plan has zero steps, run_task makes no execute_step or
   review_step call, calls final_review exactly once and returns a TaskRunResult
   with empty step_results; it does not fail. *)
C10_EmptyPlan ==
    (/\ hist.n_review_plan = hist.n_propose
     /\ hist.n_review_plan > 0
     /\ hist.last_plan_review.approved
     /\ plan.steps = StepsArray(<<>>)) =>
        /\ Finishing
        /\ error = NoError
        /\ hist.execs = <<>>
        /\ hist.trips = <<>>
        /\ hist.n_final_review = (IF pc = "final_review" THEN 0 ELSE 1)
        /\ pc = "done" => (result # NoResult /\ result.step_results = <<>>)

\* A result for an empty plan that was approved after a rejection.
C10_Witness ==
    /\ pc = "done"
    /\ plan.steps = StepsArray(<<>>)
    /\ result.step_results = <<>>
    /\ hist.n_final_review = 1
    /\ hist.n_rejected = 1

(* C11: when review_step returns approved=true together with requires_replan=true,
   the approval wins: the StepResult is among the approved results, the engine goes
   on to the next step of the plan (or to the final review after the last one), and
   no return to planning was caused by a review that approved. *)
C11_ApprovalTakesPrecedence ==
    /\ hist.cause.kind = "replan" => ~hist.cause.approved
    /\ \A m \in 1..Len(hist.trips) :
           LET t == hist.trips[m] IN
           (t.review.approved /\ t.review.requires_replan) =>
               /\ \E r \in 1..Len(approved_results) : approved_results[r] = ResultOfTrip(t)
               /\ m = Len(hist.trips) =>
                      IF HasStep(plan, t.pos + 1)
                      THEN Executing /\ index = t.pos + 1 /\ attempt = 1
                      ELSE Finishing

\* A result whose first step was approved by a review that also asked for a replan,
\* in a run that never returned to planning.
C11_Witness ==
    /\ pc = "done"
    /\ Len(result.step_results) = 2
    /\ result.step_results[1].review.approved
    /\ result.step_results[1].review.requires_replan
    /\ hist.n_replans = 0
    /\ hist.n_propose = 1

\* Every position of the current plan has an approved review in this plan attempt.
AllStepsApproved ==
    \A i \in 1..Len(StepsOf(plan)) :
        \E m \in 1..Len(hist.trips) :
            hist.trips[m].pos = i /\ hist.trips[m].review.approved

(* C12: final_review is called at most once in a run and only when every step of
   the current plan has an approved review; synthesise_outcome is called only after
   final_review has returned and only with a coordinator (without one the
   coordinator_summary is None); the report is written and the TaskRunResult
   returned only after both; a failed run has written no report and has called
   neither final_review nor synthesise_outcome. *)
C12_FinishingOrder ==
    /\ hist.n_final_review = (IF pc \in {"synthesise_outcome", "done"} THEN 1 ELSE 0)
    /\ (pc = "final_review" \/ hist.n_final_review = 1) =>
           /\ StepsIsList(plan)
           /\ AllStepsApproved
    /\ hist.n_synthesise = (IF pc = "done" /\ cfg.coordinator THEN 1 ELSE 0)
    /\ hist.n_reports = (IF pc = "done" THEN 1 ELSE 0)
    /\ (result # NoResult) <=> (pc = "done")
    /\ pc = "done" =>
           /\ result.reviewer_summary \in FinalReviews
           /\ IF cfg.coordinator
              THEN result.coordinator_summary \in Narratives
              ELSE result.coordinator_summary = NoSummary
    /\ pc = "failed" =>
           /\ hist.n_final_review = 0
           /\ hist.n_synthesise = 0
           /\ hist.n_reports = 0
           /\ result = NoResult

\* A two-step plan finished with a coordinator's narrative, a retry on the way.
C12_Witness ==
    /\ pc = "done"
    /\ cfg.coordinator
    /\ hist.n_synthesise = 1
    /\ Len(StepsOf(plan)) = 2
    /\ Len(result.step_results) = 3
    /\ result.coordinator_summary = "narrative"

(* C13: execute_step is only called for the steps of the plan that review_plan
   approved last: while steps are executed and afterwards the latest review_plan
   response is an approval of the current plan, every execute_step call carried a
   step of that plan, nothing is executed under a plan whose review did not
   approve, and the plan of the returned TaskRunResult is that approved plan. *)
C13_OnlyApprovedPlansExecuted ==
    /\ (Executing \/ Finishing) =>
           /\ hist.n_review_plan = hist.n_propose
           /\ hist.last_plan_review.approved
    /\ \A k \in 1..Len(hist.execs) :
           LET e == hist.execs[k] IN
           /\ hist.last_plan_review.approved
           /\ HasStep(plan, e.pos)
           /\ e.step = WithDefaultId(StepsOf(plan)[e.pos], e.pos)
    /\ (hist.n_review_plan > 0 /\ ~hist.last_plan_review.approved) =>
           /\ hist.execs = <<>>
           /\ pc \in {"propose_plan", "review_plan", "failed"}
           /\ result = NoResult
    /\ pc = "done" => result.plan = plan

\* A result whose plan was approved after a rejection of another plan.
C13_Witness ==
    /\ pc = "done"
    /\ hist.n_rejected = 1
    /\ previous_plan = PlanOf(<<"a", NoId>>)
    /\ result.plan = PlanOf(<<NoId>>)
    /\ Len(result.step_results) = 1

(* C19: the plan stored in the returned TaskRunResult is the approved plan as the
   planner returned it: the engine changes neither the plan nor its step records; a
   step that came without an id still has none in the stored plan, and the default
   id is only in the engine's copy held in StepResult.step. *)
C19_PlanStoredVerbatim ==
    /\ plan # NoPlan => plan \in Plans
    /\ pc = "done" =>
           /\ result.plan = plan
           /\ \A k \in 1..Len(hist.trips) :
                  LET t == hist.trips[k]
                      raw == result.plan.steps.items[t.pos]
                      held == result.step_results[k].step
                  IN  IF raw.id = NoId
                      THEN held = [raw EXCEPT !.id = "step-" \o ToString(t.pos)]
                      ELSE held = raw

\* A result for a plan whose second step came without an id.
C19_Witness ==
    /\ pc = "done"
    /\ result.plan = PlanOf(<<"step-2", NoId>>)
    /\ Len(result.step_results) = 2
    /\ result.step_results[2].step.id = "step-2"
    /\ result.plan.steps.items[2].id = NoId
(* C23: the feedback passed to execute_step belongs to the step: on the first
   attempt of a step it is None, whatever happened before, and on a later attempt
   it is the feedback of the review of the attempt before, of the same step. *)
C23_FeedbackScopedToStep ==
    \A k \in 1..Len(hist.execs) :
        LET e == hist.execs[k] IN
        IF e.attempt = 1
        THEN e.feedback = NoFeedback
        ELSE /\ k > 1
             /\ hist.trips[k - 1].pos = e.pos
             /\ hist.trips[k - 1].attempt = e.attempt - 1
             /\ e.feedback = hist.trips[k - 1].review.feedback

\* The first attempt of the second step, made after the first step was retried
\* with feedback under a plan that was proposed with the feedback of a rejection.
C23_Witness ==
    /\ pc = "review_step"
    /\ Len(hist.execs) = 3
    /\ hist.execs[2].feedback = "fb1"
    /\ hist.execs[3].pos = 2
    /\ hist.execs[3].attempt = 1
    /\ hist.last_propose.feedback = "fb1"

(* C24: the prior_results passed to execute_step for the step at position i are one
   StepResult for each of the positions 1..i-1 of the current plan attempt, in plan
   order, each the approved attempt of its step made in this plan attempt; no
   rejected attempt and nothing of an aborted plan attempt is among them. *)
C24_PriorResults ==
    \A k \in 1..Len(hist.execs) :
        LET e == hist.execs[k]
            prior == e.prior_results
        IN
        /\ Len(prior) = e.pos - 1
        /\ \A j \in 1..Len(prior) :
               /\ prior[j].review.approved
               /\ prior[j].step = WithDefaultId(StepsOf(plan)[j], j)
               /\ \E m \in 1..(k - 1) :
                      /\ hist.trips[m].pos = j
                      /\ ResultOfTrip(hist.trips[m]) = prior[j]

\* The second step of a re-proposed plan receives the first step's second attempt,
\* after a plan attempt with results was aborted.
C24_Witness ==
    /\ pc = "review_step"
    /\ hist.discarded
    /\ hist.n_replans = 1
    /\ Len(hist.execs) = 3
    /\ Len(hist.execs[3].prior_results) = 1
    /\ hist.execs[3].prior_results[1].attempt = 2

\* The feedback the engine holds after the event recorded as the cause of the
\* latest return to planning.
FeedbackOfCause ==
    IF hist.cause.kind = "replan"
    THEN FeedbackAfterReplan(hist.cause.feedback)
    ELSE hist.cause.feedback

(* C25 as stated: the first propose_plan call receives no feedback and no
   previous_plan; every later one receives the plan proposed just before it and
   the feedback of the plan review or step review that sent the engine back to
   planning. *)
C25_Original ==
    /\ hist.n_propose = 1 =>
           hist.last_propose = [feedback |-> NoFeedback, previous_plan |-> NoPlan]
    /\ (hist.n_propose > 1 /\ hist.n_propose = hist.cause.at + 1) =>
           hist.last_propose = [feedback |-> hist.cause.feedback,
                                previous_plan |-> hist.cause.plan]

(* C25 as amended: the first propose_plan call receives no feedback and no
   previous_plan; every later one receives the plan proposed just before it, and as
   feedback the feedback of the rejecting plan review, or, after a replan signal,
   the feedback of that step review or the fixed default text when that review
   carried none; never the feedback of an older event. *)
C25_ProposeArguments ==
    /\ hist.n_propose = 1 =>
           hist.last_propose = [feedback |-> NoFeedback, previous_plan |-> NoPlan]
    /\ (hist.n_propose > 1 /\ hist.n_propose = hist.cause.at + 1) =>
           hist.last_propose = [feedback |-> FeedbackOfCause,
                                previous_plan |-> hist.cause.plan]
    /\ pc = "propose_plan" =>
           IF hist.n_propose = 0
           THEN feedback = NoFeedback /\ previous_plan = NoPlan
           ELSE /\ hist.cause.kind # "none"
                /\ hist.cause.at = hist.n_propose
                /\ feedback = FeedbackOfCause
                /\ previous_plan = hist.cause.plan
                /\ previous_plan = plan

\* The third plan is proposed after a rejection with feedback and then a replan
\* signal without feedback.
C25_Witness ==
    /\ pc = "review_plan"
    /\ hist.n_propose = 3
    /\ hist.n_rejected = 1
    /\ hist.cause.kind = "replan"
    /\ hist.cause.feedback = NoFeedback
    /\ hist.last_propose.feedback = DefaultReplanFeedback

(* C26 as stated: every executed step has an id, the default one step-<position>
   when it came without, its own otherwise, and the ids of the steps at different
   positions of a plan are distinct. *)
C26_Original ==
    \A m, n \in 1..Len(hist.trips) :
        /\ hist.trips[m].step.id # NoId
        /\ hist.trips[m].pos # hist.trips[n].pos =>
               hist.trips[m].step.id # hist.trips[n].step.id

\* The longest plan a planner response of the model holds.
LongestPlan == CHOOSE n \in 0..10 :
    /\ \A p \in Plans : Len(StepsOf(p)) <= n
    /\ \E p \in Plans : Len(StepsOf(p)) = n

\* The number of engine steps one plan attempt can take at most, plus one.
PlanSpan == 2 * LongestPlan * cfg.max_step_iterations + 6

\* What is left of the current plan attempt: the calls still possible in it.
LeftOfAttempt ==
    CASE pc = "propose_plan" -> PlanSpan - 1
      [] pc = "review_plan" -> PlanSpan - 2
      [] pc = "execute_step" ->
            2 * ((Len(StepsOf(plan)) - index) * cfg.max_step_iterations
                 + (cfg.max_step_iterations - attempt)) + 4
      [] pc = "review_step" ->
            2 * ((Len(StepsOf(plan)) - index) * cfg.max_step_iterations
                 + (cfg.max_step_iterations - attempt)) + 3
      [] pc = "final_review" -> 2
      [] pc = "synthesise_outcome" -> 1
      [] OTHER -> 0

\* A natural number that every step of the engine lowers: the plan attempts left
\* first, then what is left of the current one.
Rank ==
    IF pc \in {"done", "failed"}
    THEN 0
    ELSE (cfg.max_plan_iterations - plan_attempt) * PlanSpan + LeftOfAttempt

\* The counters of the loops are within their bounds.
CountersBounded ==
    /\ plan_attempt <= cfg.max_plan_iterations
    /\ hist.n_propose <= cfg.max_plan_iterations
    /\ Executing =>
           /\ index \in 1..Len(StepsOf(plan))
           /\ attempt \in 1..cfg.max_step_iterations
           /\ Len(hist.execs) <= Len(StepsOf(plan)) * cfg.max_step_iterations
    /\ Rank \in Nat

(* C28: with collaborators that return, every run of run_task ends: it makes at
   most max_plan_iterations propose_plan calls and, in each plan attempt, at most
   n * max_step_iterations execute_step calls for a plan of n steps, and every
   step of the engine lowers a natural number made of the bounded counters, so no
   loop repeats without advancing one of them. *)
C28_EveryRunTerminates ==
    /\ []CountersBounded
    /\ [][Rank' < Rank]_vars

\* The last plan attempt allowed, with every step of a two-step plan tried as often
\* as allowed.
C28_Witness ==
    /\ pc = "final_review"
    /\ cfg.max_plan_iterations = 3
    /\ hist.n_propose = 3
    /\ cfg.max_step_iterations = 2
    /\ Len(hist.execs) = 4

(* C29: in the step_results of a returned TaskRunResult the results are grouped by
   step in plan order, the attempts of a step are numbered 1, 2, ... up to at most
   max_step_iterations, the last result of each step is approved and is the only
   approved one of its step, the earlier ones are neither approved nor replan
   requests, and every step of the plan has a group. *)
C29_StepResultsGrouped ==
    pc = "done" =>
        LET rs == result.step_results
            steps == StepsOf(result.plan)
            Pos(k) == hist.trips[k].pos
        IN
        /\ Len(rs) = Len(hist.trips)
        /\ (steps = <<>>) = (rs = <<>>)
        /\ \A k \in 1..Len(rs) :
               /\ Pos(k) \in 1..Len(steps)
               /\ rs[k].step = WithDefaultId(steps[Pos(k)], Pos(k))
               /\ rs[k].step_id = rs[k].step.id
               /\ rs[k].attempt \in 1..cfg.max_step_iterations
               /\ IF k = 1
                  THEN Pos(k) = 1 /\ rs[k].attempt = 1
                  ELSE IF rs[k - 1].review.approved
                       THEN Pos(k) = Pos(k - 1) + 1 /\ rs[k].attempt = 1
                       ELSE /\ Pos(k) = Pos(k - 1)
                            /\ rs[k].attempt = rs[k - 1].attempt + 1
                            /\ ~rs[k - 1].review.requires_replan
               /\ k = Len(rs) =>
                      rs[k].review.approved /\ Pos(k) = Len(steps)

\* A result of a two-step plan whose first step took two attempts and whose second
\* step was approved by a review that also asked for a replan.
C29_Witness ==
    /\ pc = "done"
    /\ Len(result.step_results) = 3
    /\ result.step_results[2].attempt = 2
    /\ result.step_results[3].attempt = 1
    /\ result.step_results[3].review.requires_replan

(* ======================== properties of run_all ======================== *)
\* The planner conversation of a task whose run has made n propose_plan calls, had
\* the planner been fresh when the run began.
FreshConversation(n) ==
    <<"system">> \o [k \in 1..(2 * n) |-> IF k % 2 = 1 THEN "user" ELSE "assistant"]

(* C15: run_all processes the tasks one after another in the order given: while a
   task is processed the results hold exactly one TaskRunResult for each task
   before it, in order, and no request has been made for a task after it; when
   run_all returns there is one TaskRunResult per task; when a task fails its
   error ends run_all and nothing further happens. *)
C15_BatchInOrder ==
    /\ pc = "run_all" => (results = <<>> /\ position = 0)
    /\ pc \notin {"run_all", "returned"} =>
           /\ position \in 1..Len(tasks)
           /\ Len(results) = position - 1
    /\ pc = "returned" => Len(results) = Len(tasks)
    /\ \A k \in 1..Len(results) : results[k].task = tasks[k]
    /\ \A k \in (position + 1)..Len(tasks) :
           (\A j \in 1..position : tasks[j].name # tasks[k].name) =>
               chat_histories[PlanConversation(tasks[k])] = <<>>
    /\ error # NoError => pc = "failed"
    /\ pc = "failed" => ~ENABLED NextAll

\* run_all returned the results of two different tasks.
C15_Witness ==
    /\ pc = "returned"
    /\ Len(results) = 2
    /\ results[1].task.name = "t2"
    /\ results[2].task.name = "t1"
    /\ Len(results[1].step_results) = 2

(* C20 as stated: nothing written while one task is processed influences a later
   task of the batch: the messages of the planner requests made for a task are
   those a fresh workflow would send for it, also when an earlier task of the
   batch had the same name. *)
C20_Original ==
    pc = "review_plan" =>
        chat_histories[PlanConversation(TheTask)] = FreshConversation(hist.n_propose)
(* ===================== properties of the registry ====================== *)
(* C16: register raises the naming-conflict error when the name is already
   registered and leaves the registry as it was, and registers the skill
   otherwise; execute raises the not-found error for a name that was never
   registered and invokes no operation; each name maps to the skill of its first
   successful registration. *)
C16_RegistryContract ==
    LET c == registry_call IN
    /\ c.op = "register" =>
           IF c.before[c.name] # NoSkill
           THEN c.raised = "ValueError" /\ skills = c.before
           ELSE /\ c.raised = "none"
                /\ skills = [c.before EXCEPT
                                 ![c.name] = Skill(c.name, c.function, c.description)]
    /\ (c.op = "execute" /\ c.first[c.name] = NoSkill) =>
           /\ c.raised = "KeyError"
           /\ c.invoked = NoOperation
           /\ skills = c.before
    /\ skills = c.first

\* A second registration of a name, with another operation, was refused.
C16_Witness ==
    /\ registry_call.op = "register"
    /\ registry_call.raised = "ValueError"
    /\ skills[registry_call.name].function # registry_call.function
    /\ skills[registry_call.name].description # registry_call.description

(* C17: a failed skill invocation inside execute_step (unknown name, arguments that
   do not fit, the operation raising) never leaves execute_step as an error: the
   next model call carries the error message, and after at most
   max_skill_invocations invocations the parsed response is returned as the
   execution output. *)
C17_SkillFailuresStayInside ==
    /\ executor.pc # "raised"
    /\ \A k \in 1..Len(executor_log) :
           executor_log[k].skill \in {"KeyError", "TypeError", "RuntimeError"} =>
               IF k < Len(executor_log)
               THEN executor_log[k + 1].message = "skill_error"
               ELSE /\ executor.pc = "generate_response"
                    /\ executor.pending_message = "skill_error"
    /\ executor.invocations <= executor.max_skill_invocations
    /\ Len(executor_log) <= executor.max_skill_invocations + 1
    /\ Len(executor_log) = executor.max_skill_invocations + 1 => executor.pc = "returned"
    /\ executor.pc = "returned" =>
           /\ executor.returned = Last(executor_log).response
           /\ executor.returned \in ExecutorResponses

\* An output returned after an unknown skill name and a raising operation.
C17_Witness ==
    /\ executor.pc = "returned"
    /\ Len(executor_log) = 3
    /\ executor_log[1].skill = "KeyError"
    /\ executor_log[2].skill = "RuntimeError"
    /\ executor_log[3].message = "skill_error"

\* A model call of the log whose response led to a skill invocation.
Invoked(entry) == entry.skill # "not_invoked"

\* The calls made so far by the current execute_step call are within the budget,
\* and a response is returned as the claim says.
WithinInvocationBudget ==
    /\ Count(executor_log, Invoked) = executor.invocations
    /\ executor.invocations <= executor.max_skill_invocations
    /\ Len(executor_log) <= executor.max_skill_invocations + 1
    /\ \A k \in 1..(Len(executor_log) - 1) :
           /\ Invoked(executor_log[k])
           /\ SkillNameOf(executor_log[k].response) # ""
    /\ executor.pc = "generate_response" =>
           (executor_log # <<>> => Invoked(Last(executor_log)))
    /\ executor.pc = "returned" =>
           /\ ~Invoked(Last(executor_log))
           /\ executor.returned = Last(executor_log).response
           /\ \/ SkillNameOf(executor.returned) = ""
              \/ executor.invocations = executor.max_skill_invocations

(* C30: one call of execute_step invokes skills at most max_skill_invocations times
   and makes at most max_skill_invocations + 1 model calls; every model call either
   uses up one invocation or ends the call, so the call ends when the model and the
   skills return; what is returned is the first response that requests no skill,
   or, with the budget used up, the next response as it is, its skill not invoked. *)
C30_InvocationBudget ==
    /\ []WithinInvocationBudget
    /\ [][executor.pc = "generate_response" =>
             /\ Len(executor_log') = Len(executor_log) + 1
             /\ \/ executor'.pc = "returned"
                \/ /\ executor'.pc = "generate_response"
                   /\ executor'.invocations = executor.invocations + 1]_vars

\* With the budget of two used up, the third response is returned although it
\* requests a skill.
C30_Witness ==
    /\ executor.pc = "returned"
    /\ executor.max_skill_invocations = 2
    /\ executor.invocations = 2
    /\ Len(executor_log) = 3
    /\ SkillNameOf(executor.returned) = "math"
    /\ ~Invoked(executor_log[3])


(* ========================== properties of main ========================= *)
(* C22 as stated: without a model credential main fails with a fatal error at
   startup, whatever the task file, also one that defines no tasks: it never
   returns normally, constructs no agent, issues no request and starts no log. *)
C22_Original ==
    ~Truthy(main.api_key) =>
        /\ main.pc # "returned"
        /\ main.agents = {}
        /\ ~main.workflow
        /\ ~main.requests
        /\ ~main.log_file

(* ========================= properties of reports ======================= *)
(* C21: building the report reads the TaskRunResult and changes nothing of it:
   to_markdown and to_dict give the same output when called again, and writing the
   report of a result makes the file hold exactly its markdown, so that rewriting
   the report of an identical result leaves the stored report as it was. *)
C21_ReportIdempotent ==
    [][pc = "write_report" =>
          LET path == ReportPath(result.task.name) IN
          /\ result' = result
          /\ ToMarkdown(result') = ToMarkdown(result)
          /\ ToDict(result') = ToDict(result)
          /\ reports'[path] = ToMarkdown(result)
          /\ \A f \in ReportPaths \ {path} : reports'[f] = reports[f]
          /\ reports[path] = ToMarkdown(result) => reports' = reports]_vars

\* The report of a result with steps and a coordinator summary was written twice.
C21_Witness ==
    /\ pc = "idle"
    /\ Len(results) = 2
    /\ results[1] = results[2]
    /\ results[1].step_results # <<>>
    /\ reports[ReportPath(results[1].task.name)] = ToMarkdown(results[1])

\* The characters a report's file name may be made of.
SlugCharacters == {c \in {"t", "a", "s", "k", "1", "2"} : IsAlnum(c) /\ Lower(c) = c}
                      \cup {"-", "_"}

\* The place in the list of the last result whose report went to the file f.
LastWriter(f) ==
    CHOOSE k \in 1..Len(results) :
        /\ ReportPath(results[k].task.name) = f
        /\ \A m \in (k + 1)..Len(results) : ReportPath(results[m].task.name) # f

(* C27: every successful run's report goes to the file named by the slug of the
   task name, which is not empty and made of lowercase letters, digits, '-' and
   '_' only; a later task whose name has the same slug overwrites the report, so
   that there is one report per slug, holding the markdown of the last successful
   task with that slug. *)
C27_OneReportPerSlug ==
    /\ \A k \in 1..Len(results) :
           LET slug == SafeName(results[k].task.name) IN
           /\ slug # <<>>
           /\ \A c \in 1..Len(slug) : slug[c] \in SlugCharacters
           /\ ReportPath(results[k].task.name) \in ReportPaths
    /\ \A f \in ReportPaths :
           IF \E k \in 1..Len(results) : ReportPath(results[k].task.name) = f
           THEN reports[f] = ToMarkdown(results[LastWriter(f)])
           ELSE reports[f] = NoFile
    /\ Cardinality({f \in ReportPaths : reports[f] # NoFile})
           = Cardinality({SafeName(results[k].task.name) : k \in 1..Len(results)})

\* Two tasks with different names and the same slug: the file holds the later one.
C27_Witness ==
    /\ pc = "idle"
    /\ Len(results) = 2
    /\ results[1].task.name = "T1"
    /\ results[2].task.name = " t1"
    /\ reports["t1.md"] = ToMarkdown(results[2])
    /\ reports["t1.md"] # ToMarkdown(results[1])

(* ============== properties of responses of another shape =============== *)
(* C18 as stated: a response that is not of the expected shape makes run_task fail
   at once: after a plan review without 'approved', after the approval of a plan
   without 'steps', and after a response that does not parse, the run has failed;
   it is not treated as a rejection, retried or carried on with. *)
C18_Original ==
    /\ (/\ hist.n_review_plan > 0
        /\ hist.n_review_plan = hist.n_propose
        /\ "approved" \notin DOMAIN hist.last_plan_review) => pc = "failed"
    /\ (/\ hist.n_review_plan > 0
        /\ hist.n_review_plan = hist.n_propose
        /\ "steps" \notin DOMAIN plan) => pc = "failed"
    /\ (error # NoError /\ error.kind = "json_decode") => pc = "failed"

====
